---- MODULE Spec2Model ----
(***************************************************************************)
(* Collaborative filtering with a Gaussian mixture fitted by EM            *)
(* (Customer_Review_Prediction.ipynb): init, estep, mstep, run and         *)
(* fill_matrix, as a state machine over the notebook's kernel state.       *)
(*                                                                         *)
(* Numbers.  Every float of the program is a fixed-point integer with      *)
(* Scale units to 1.0 (a rating 2.0 is 2000, the variance floor .25 is     *)
(* 250).  Each arithmetic operation rounds to that grid the way a float    *)
(* operation rounds to the float grid; np.log, np.exp and logsumexp are    *)
(* computed on the grid by range reduction and a short series.  The one    *)
(* not-a-number the program can produce from finite inputs with positive   *)
(* variances, the 0/0 of mstep's variance quotient, is the value NaN.      *)
(*                                                                         *)
(* Arrays.  numpy arrays are mutable objects that names refer to, so the   *)
(* model keeps a heap from addresses to array values; a function receives  *)
(* the addresses of its arguments, allocates what the code allocates       *)
(* (np.copy, np.zeros, the result of an expression) and writes in place    *)
(* where the code writes in place.                                         *)
(***************************************************************************)
EXTENDS Integers, Sequences, FiniteSets, TLC

(***************************************************************************)
(* Fixed-point arithmetic                                                  *)
(***************************************************************************)
Scale == 1000

NaN == 0 - 1000000000

Abs(a) == IF a < 0 THEN 0 - a ELSE a

\* a * b of two grid numbers
FMul(a, b) == (a * b) \div Scale

\* a / b of two grid numbers, b # 0
FDiv(a, b) == (a * Scale) \div b

\* np.log(2 * np.pi)
LOG_2PI == 1838

\* math.log(2), used by the range reduction of np.log
LN_2 == 693

\* np.log(0 + 1e-16)
LOG_EPS == 0 - 36841

\* np.log of a mantissa m in [1, 2): 2 * atanh((m - 1) / (m + 1))
LnMantissa(m) ==
    LET y  == ((m - Scale) * Scale) \div (m + Scale)
        y2 == (y * y) \div Scale
        t3 == (y * y2) \div Scale
        t5 == (t3 * y2) \div Scale
    IN  2 * y + (2 * t3) \div 3 + (2 * t5) \div 5

RECURSIVE NpLog(_)
\* np.log(x) for x > 0
NpLog(x) ==
    IF x >= 2 * Scale THEN LN_2 + NpLog(x \div 2)
    ELSE IF x < Scale THEN NpLog(2 * x) - LN_2
    ELSE LnMantissa(x)

\* e^(-q) for a whole number q >= 0, in millionths; underflows to 0
ExpWhole(q) ==
    IF q > 13 THEN 0
    ELSE <<1000000, 367879, 135335, 49787, 18316, 6738, 2479,
           912, 335, 123, 45, 17, 6, 2>>[q + 1]

\* e^(-r) for a fraction r in [0, 1)
ExpFrac(r) ==
    LET h5 == Scale - r \div 5
        h4 == Scale - (r * h5) \div (4 * Scale)
        h3 == Scale - (r * h4) \div (3 * Scale)
        h2 == Scale - (r * h3) \div (2 * Scale)
    IN  Scale - (r * h2) \div Scale

\* e^(-a) for a >= 0
ExpNeg(a) == (ExpWhole(a \div Scale) * ExpFrac(a % Scale) + 500000) \div 1000000

\* np.exp(t)
NpExp(t) ==
    IF t <= 0 THEN ExpNeg(0 - t)
    ELSE IF ExpNeg(t) = 0 THEN Scale * Scale
    ELSE (Scale * Scale) \div ExpNeg(t)

(***************************************************************************)
(* Arrays and the heap of array objects                                    *)
(***************************************************************************)
RECURSIVE SumSeq(_)
\* np.sum of a vector
SumSeq(s) == IF Len(s) = 0 THEN 0 ELSE Head(s) + SumSeq(Tail(s))

RECURSIVE MaxSeq(_)
\* np.max of a non-empty vector
MaxSeq(s) ==
    IF Len(s) = 1 THEN s[1]
    ELSE LET m == MaxSeq(Tail(s)) IN IF Head(s) >= m THEN Head(s) ELSE m

NRows(M) == Len(M)
NCols(M) == Len(M[1])

\* The reference None
None == 0

\* The objects the caller holds and passes as arguments: the rating matrix X,
\* the three arrays of the Mixture State, the Responsibility Matrix.
XRef == 1
MuRef == 2
VarRef == 3
PRef == 4
PostRef == 5
CallerRefs == {XRef, MuRef, VarRef, PRef, PostRef}

\* A new array object holding v, at the lowest free address past the caller's.
Alloc(h, v) ==
    LET top == Cardinality(CallerRefs) + Cardinality(DOMAIN h) + 1
        a == CHOOSE n \in (Cardinality(CallerRefs) + 1)..top :
                 n \notin DOMAIN h
                 /\ \A m \in (Cardinality(CallerRefs) + 1)..(n - 1) : m \in DOMAIN h
    IN  [heap |-> (a :> v) @@ h, ref |-> a]

\* A binding to the same object instead of a copy of it.
NpCopyAlias(h, src) == [heap |-> h, ref |-> src]

\* np.copy(a): a new object with a's contents
NpCopy(h, src) == Alloc(h, h[src])

\* np.zeros(n) and np.zeros((n, m))
ZerosVec(n) == [a \in 1..n |-> 0]
ZerosMat(n, m) == [a \in 1..n |-> [b \in 1..m |-> 0]]

\* GaussianMixture(mu, var, p): a tuple of three array references
GaussianMixture(mu, var, p) == [mu |-> mu, var |-> var, p |-> p]

NoMixture == GaussianMixture(None, None, None)

MixtureRefs(m) == {m.mu, m.var, m.p}

(***************************************************************************)
(* estep                                                                   *)
(***************************************************************************)
\* non_null = (X != 0).astype(int)
NonNull(X) ==
    [i \in 1..NRows(X) |-> [j \in 1..NCols(X) |-> IF X[i][j] # 0 THEN 1 ELSE 0]]

\* rated = np.sum(non_null, axis=1)
Rated(X) == LET non_null == NonNull(X) IN [i \in 1..NRows(X) |-> SumSeq(non_null[i])]

\* The mean taken unmasked: mixture.mu alone.
MaskedMeanUnmasked(non_null, mu, i, k, j) == mu[k][j]

\* non_null[:, None, :] * mixture.mu at [i, k, j]
MaskedMean(non_null, mu, i, k, j) == non_null[i][j] * mu[k][j]

\* norm = np.sum((X[:, None, :] - non_null[:, None, :] * mixture.mu) ** 2, axis=2)
Norm(X, mu) ==
    LET non_null == NonNull(X)
    IN  [i \in 1..NRows(X) |->
            [k \in 1..Len(mu) |->
                SumSeq([j \in 1..NCols(X) |->
                    LET diff == X[i][j] - MaskedMean(non_null, mu, i, k, j)
                    IN  FMul(diff, diff)])]]

\* np.log(mixture.p + 1e-16): the 1e-16 is below the grid unless p is 0
LogP(pk) == IF pk = 0 THEN LOG_EPS ELSE NpLog(pk)

\* f = -norm / (var * 2) - (rated / 2.0) * (log(2 pi) + log(var)) + log(p + 1e-16)
F(X, mu, var, p) ==
    LET norm == Norm(X, mu)
        rated == Rated(X)
        logvar == [k \in 1..Len(mu) |-> NpLog(var[k])]
        logp == [k \in 1..Len(mu) |-> LogP(p[k])]
    IN  [i \in 1..NRows(X) |->
            [k \in 1..Len(mu) |->
                LET norm2 == FDiv(0 - norm[i][k], var[k] * 2)
                IN  norm2 - (rated[i] * (LOG_2PI + logvar[k])) \div 2 + logp[k]]]

\* The row normaliser taken as the row maximum alone.
LogSumExpMaxOnly(row) == MaxSeq(row)

\* scipy.special.logsumexp of one row: max + log(sum(exp(row - max)))
LogSumExp(row) ==
    LET a_max == MaxSeq(row)
    IN  a_max + NpLog(SumSeq([k \in 1..Len(row) |-> NpExp(row[k] - a_max)]))

\* log_post = f - logsumexp(f, axis=1, keepdims=True)
LogPost(f) ==
    [i \in 1..Len(f) |->
        LET lse == LogSumExp(f[i]) IN [k \in 1..Len(f[i]) |-> f[i][k] - lse]]

\* post = np.exp(log_post)
Post(log_post) ==
    [i \in 1..Len(log_post) |->
        [k \in 1..Len(log_post[i]) |-> NpExp(log_post[i][k])]]

\* log_likelihood = np.sum(post * (f - log_post))
LogLikelihood(post, f, log_post) ==
    SumSeq([i \in 1..Len(f) |->
        SumSeq([k \in 1..Len(f[i]) |-> FMul(post[i][k], f[i][k] - log_post[i][k])])])

\* estep(X, mixture): reads its arguments, returns a new post array and the cost
estep(h, X, mixture) ==
    LET f == F(h[X], h[mixture.mu], h[mixture.var], h[mixture.p])
        log_post == LogPost(f)
        post == Post(log_post)
        a == Alloc(h, post)
    IN  [heap |-> a.heap, post |-> a.ref, cost |-> LogLikelihood(post, f, log_post)]

(***************************************************************************)
(* mstep                                                                   *)
(***************************************************************************)
\* min_variance: float = .25
MIN_VARIANCE == 250

\* X2[X2 != 0] = 1, written in place
SetNonZeroToOne(X2) ==
    [i \in 1..NRows(X2) |->
        [j \in 1..NCols(X2) |-> IF X2[i][j] # 0 THEN Scale ELSE X2[i][j]]]

\* np.multiply(X2[:, j].T, np.matrix(post[:, k])).T.sum(axis=0)
MeanDenominator(X2, post, k, j) ==
    SumSeq([i \in 1..NRows(X2) |-> FMul(X2[i][j], post[i][k])])

\* np.multiply(X[:, j].T, np.matrix(post[:, k])).T.sum(axis=0)
MeanNumerator(X, post, k, j) ==
    SumSeq([i \in 1..NRows(X) |-> FMul(X[i][j], post[i][k])])

\* The test on the denominator as "> 0" instead of ">= 1".
EnoughMassAnyPositive(D) == D > 0

\* ... >= 1
EnoughMass(D) == D >= Scale

RECURSIVE MeanLoop(_, _, _, _, _, _, _, _, _)
\* for k in range(K): for i in range(X.shape[1]): mu_h[k, i] = ...
\* Returns the heap and the denominators the loop divided by.
MeanLoop(h, X, X2, post, mixture, mu_h, k, j, divs) ==
    IF k > Len(h[post][1]) THEN [heap |-> h, divs |-> divs]
    ELSE IF j > NCols(h[X]) THEN MeanLoop(h, X, X2, post, mixture, mu_h, k + 1, 1, divs)
    ELSE LET D == MeanDenominator(h[X2], h[post], k, j)
         IN  IF EnoughMass(D)
             THEN MeanLoop([h EXCEPT ![mu_h][k][j] =
                                FDiv(MeanNumerator(h[X], h[post], k, j), D)],
                           X, X2, post, mixture, mu_h, k, j + 1, divs \cup {D})
             ELSE MeanLoop([h EXCEPT ![mu_h][k][j] = h[mixture.mu][k][j]],
                           X, X2, post, mixture, mu_h, k, j + 1, divs)

\* p = post.sum(axis=0) / post.shape[0]
MixingWeights(post) ==
    [k \in 1..Len(post[1]) |->
        FDiv(SumSeq([i \in 1..Len(post) |-> post[i][k]]), Len(post) * Scale)]

\* (post[:, k] * np.power((X - mu_h[k]) * X2, 2).sum(axis=1)).sum(axis=0)
VarNumerator(X, X2, post, mu_h, k) ==
    SumSeq([i \in 1..NRows(X) |->
        FMul(post[i][k],
             SumSeq([j \in 1..NCols(X) |->
                 LET r == FMul(X[i][j] - mu_h[k][j], X2[i][j]) IN FMul(r, r)]))])

\* ((np.matrix(post[:, k]) * X2).sum(axis=1)).sum(axis=0)
VarDenominator(X2, post, k) ==
    SumSeq([j \in 1..NCols(X2) |->
        SumSeq([i \in 1..NRows(X2) |-> FMul(post[i][k], X2[i][j])])])

\* The quotient of two floats; 0/0 is nan (a float division raises nothing).
\* A zero denominator here means every post[i, k] * X2[i, j] is zero, and then
\* the numerator is zero too.
Quotient(num, den) == IF den = 0 THEN NaN ELSE FDiv(num, den)

\* The floor left out: the variance is the quotient whatever it is.
FlooredNoFloor(pv, min_variance) == pv

\* if pv >= min_variance: pv else: min_variance   (a comparison with nan is False)
Floored(pv, min_variance) ==
    IF pv # NaN /\ pv >= min_variance THEN pv ELSE min_variance

RECURSIVE VarLoop(_, _, _, _, _, _, _, _)
\* for k in range(K): var_h[k] = ...
VarLoop(h, X, X2, post, mu_h, var_h, min_variance, k) ==
    IF k > Len(h[post][1]) THEN h
    ELSE LET pv == Quotient(VarNumerator(h[X], h[X2], h[post], h[mu_h], k),
                            VarDenominator(h[X2], h[post], k))
         IN  VarLoop([h EXCEPT ![var_h][k] = Floored(pv, min_variance)],
                     X, X2, post, mu_h, var_h, min_variance, k + 1)

\* mstep(X, post, mixture, min_variance): X2, mu_h, var_h and p are new arrays
\* (the np.zeros of line 184 is rebound at once and never read).
mstep(h, X, post, mixture, min_variance) ==
    LET c   == NpCopy(h, X)
        X2  == c.ref
        h1  == [c.heap EXCEPT ![X2] = SetNonZeroToOne(@)]
        m   == Alloc(h1, ZerosMat(Len(h1[mixture.mu]), Len(h1[mixture.mu][1])))
        lp  == MeanLoop(m.heap, X, X2, post, mixture, m.ref, 1, 1, {})
        pa  == Alloc(lp.heap, MixingWeights(lp.heap[post]))
        v   == Alloc(pa.heap, ZerosVec(Len(pa.heap[mixture.var])))
        h2  == VarLoop(v.heap, X, X2, post, m.ref, v.ref, min_variance, 1)
    IN  [heap |-> h2, mixture |-> GaussianMixture(m.ref, v.ref, pa.ref),
         divs |-> lp.divs]

(***************************************************************************)
(* fill_matrix                                                             *)
(***************************************************************************)
\* X == 0
IsMissing(x) == x = 0

RECURSIVE Where(_, _, _)
\* a, b = np.where(X == 0); list(zip(a, b)): the zero cells in row-major order
Where(X, i, j) ==
    IF i > NRows(X) THEN <<>>
    ELSE IF j > NCols(X) THEN Where(X, i + 1, 1)
    ELSE (IF IsMissing(X[i][j]) THEN <<(<<i, j>>)>> ELSE <<>>) \o Where(X, i, j + 1)

\* np.sum(post[i] * mixture.mu[:, j])
Estimate(post, mu, i, j) == SumSeq([k \in 1..Len(mu) |-> FMul(post[i][k], mu[k][j])])

RECURSIVE FillLoop(_, _, _, _, _)
\* for i in list(zip(a, b)): output[i] = ...
FillLoop(h, output, post, mu, cells) ==
    IF Len(cells) = 0 THEN h
    ELSE LET c == Head(cells)
         IN  FillLoop([h EXCEPT ![output][c[1]][c[2]] = Estimate(post, h[mu], c[1], c[2])],
                      output, post, mu, Tail(cells))

\* fill_matrix(X, mixture): lines 247-255 repeat estep's lines 141-152
fill_matrix(h, X, mixture) ==
    LET o     == NpCopy(h, X)
        post  == Post(LogPost(F(o.heap[X], o.heap[mixture.mu], o.heap[mixture.var],
                                o.heap[mixture.p])))
        cells == Where(o.heap[X], 1, 1)
    IN  [heap |-> FillLoop(o.heap, o.ref, post, mixture.mu, cells), output |-> o.ref]

(***************************************************************************)
(* init, with numpy's global random generator                              *)
(***************************************************************************)
\* The generator's state space (MT19937's, cut down to a 5-bit congruential one)
RngMod == 32

RngNext(s) == (5 * s + 3) % RngMod

\* A draw in 0..hi from state s (the state is advanced by the caller)
RngInterval(s, hi) == (s \div 4) % (hi + 1)

\* np.random.seed(seed)
SeedRng(state, seed) == seed % RngMod

Swap(x, a, b) == [x EXCEPT ![a] = x[b], ![b] = x[a]]

RECURSIVE Shuffle(_, _, _)
\* np.random.permutation(n): for i in reversed(range(1, n)): swap x[i], x[draw(0..i)]
\* (positions here count from 1)
Shuffle(x, s, i) ==
    IF i < 2 THEN [perm |-> x, rng |-> s]
    ELSE LET s1 == RngNext(s)
         IN  Shuffle(Swap(x, i, RngInterval(s1, i - 1) + 1), s1, i - 1)

RECURSIVE Draws(_, _, _)
\* K independent draws in 1..n
Draws(n, s, K) ==
    IF K = 0 THEN [idx |-> <<>>, rng |-> s]
    ELSE LET s1 == RngNext(s)
             r  == Draws(n, s1, K - 1)
         IN  [idx |-> <<RngInterval(s1, n - 1) + 1>> \o r.idx, rng |-> r.rng]

\* The draw made with replacement: any K is served, rows may repeat.
ChoiceWithReplacement(n, K, s) ==
    LET r == Draws(n, s, K) IN [error |-> "", idx |-> r.idx, rng |-> r.rng]

\* np.random.choice(n, K, replace=False): the first K of a permutation of range(n);
\* raises ValueError when K > n
Choice(n, K, s) ==
    IF K > n THEN [error |-> "ValueError", idx |-> <<>>, rng |-> s]
    ELSE LET r == Shuffle([a \in 1..n |-> a], s, n)
         IN  [error |-> "", idx |-> SubSeq(r.perm, 1, K), rng |-> r.rng]

\* ((X - mu[j]) ** 2).mean(): over all n * d cells
InitVariance(X, muj) ==
    FDiv(SumSeq([i \in 1..NRows(X) |->
            SumSeq([j \in 1..NCols(X) |-> FMul(X[i][j] - muj[j], X[i][j] - muj[j])])]),
         NRows(X) * NCols(X) * Scale)

\* init(X, K, seed)
init(h, state, X, K, seed) ==
    LET s0 == SeedRng(state, seed)
        n  == NRows(h[X])
        pa == Alloc(h, [k \in 1..K |-> FDiv(Scale, K * Scale)])
        c  == Choice(n, K, s0)
    IN  IF c.error # ""
        THEN [heap |-> h, rng |-> c.rng, error |-> c.error,
              mixture |-> NoMixture, post |-> None]
        ELSE LET m  == Alloc(pa.heap, [k \in 1..K |-> h[X][c.idx[k]]])
                 v  == Alloc(m.heap, [k \in 1..K |-> InitVariance(h[X], m.heap[m.ref][k])])
                 po == Alloc(v.heap, [a \in 1..n |-> [k \in 1..K |-> FDiv(Scale, K * Scale)]])
             IN  [heap |-> po.heap, rng |-> c.rng, error |-> "",
                  mixture |-> GaussianMixture(m.ref, v.ref, pa.ref), post |-> po.ref]

(***************************************************************************)
(* The kernel state and the inputs                                         *)
(***************************************************************************)
VARIABLES
    heap,       \* the array objects: the caller's (X, mixture, post) and the live results
    rng,        \* numpy's global generator state
    prev_cost,  \* the module-level variable run declares with "global prev_cost"
    pc,         \* "idle", or where the call of run in progress stands
    i,          \* run's local i
    cost,       \* run's local cost
    mixture,    \* run's local mixture (array references)
    post,       \* run's local post (an array reference)
    ret         \* the call made last: its name, scalar arguments and return value
                \* (nothing while run is in progress)

vars == <<heap, rng, prev_cost, pc, i, cost, mixture, post, ret>>

\* A name not bound yet (prev_cost before any run) and Python's None (run's cost)
Undefined == 0 - 2000000000
NoCost == 0 - 2000000001

NoRet ==
    [op |-> "none", error |-> "", mixture |-> NoMixture, post |-> None, cost |-> NoCost,
     output |-> None, min_variance |-> 0, divs |-> {}, K |-> 0, seed |-> 0, i |-> 0]

\* The caller's Mixture State
Given == GaussianMixture(MuRef, VarRef, PRef)

\* What is left of the heap when a step ends: the caller's objects and the
\* objects the step's results refer to (a mixture, a post, an output); the rest
\* is garbage.  A result object is kept at the address of its role, so that
\* equal contents make equal states; an address is not observable in the program.
RoleRef(r, role) ==
    IF r = None \/ r \in CallerRefs THEN r ELSE Cardinality(CallerRefs) + role

Settle(h, m, po, out) ==
    LET refs == <<m.mu, m.var, m.p, po, out>>
        kept == ((DOMAIN h) \cap CallerRefs)
                    \cup ({RoleRef(refs[t], t) : t \in 1..Len(refs)} \ {None})
    IN  [heap |-> [a \in kept |->
                      IF a \in CallerRefs THEN h[a]
                      ELSE h[refs[a - Cardinality(CallerRefs)]]],
         mixture |-> GaussianMixture(RoleRef(m.mu, 1), RoleRef(m.var, 2), RoleRef(m.p, 3)),
         post |-> RoleRef(po, 4),
         output |-> RoleRef(out, 5)]

\* Rating matrices: 0 is a missing rating.
RatingMatrices ==
    { << <<1000, 3000>>, <<1000, 3000>> >>,
      << <<1000, 0>>, <<0, 3000>> >>,
      << <<2000, 0>>, <<1000, 3000>> >>,
      << <<0, 0>>, <<3000, 1000>> >>,
      << <<1000, 0>>, <<0, 3000>>, <<3000, 2000>> >> }

MeanValues == {1000, 3000}

MeanRows(d) == [1..d -> MeanValues]

\* Mixture States of one and of two components, every variance positive
Mixtures(d) ==
    { [mu |-> <<m1, m2>>, var |-> v, p |-> p] :
        m1 \in MeanRows(d), m2 \in {m \in MeanRows(d) : m[1] = 3000},
        v \in {<<250, 250>>, <<1000, 1000>>, <<100, 2000>>},
        p \in {<<500, 500>>, <<1000, 0>>} }
    \cup
    { [mu |-> <<m1>>, var |-> v, p |-> <<1000>>] :
        m1 \in MeanRows(d), v \in {<<250>>, <<1000>>} }

\* The Mixture States that every post below is paired with
CoreMixtures(d) ==
    { m \in Mixtures(d) :
        /\ m.var[1] = 1000
        /\ m.p[1] \in {500, 1000}
        /\ \A j \in 1..d : m.mu[1][j] = 1000
        /\ Len(m.mu) = 2 => \A j \in 1..d : m.mu[2][j] = 3000 }

Uniform(n, K) == [a \in 1..n |-> [k \in 1..K |-> FDiv(Scale, K * Scale)]]

\* Responsibility Matrices: uniform, hard, skewed, with an empty component,
\* and one whose first row does not sum to 1
Posts(n, K) ==
    IF K = 1 THEN {Uniform(n, 1)}
    ELSE { Uniform(n, 2),
           [a \in 1..n |-> IF a % 2 = 1 THEN <<1000, 0>> ELSE <<0, 1000>>],
           [a \in 1..n |-> <<1000, 0>>],
           [a \in 1..n |-> IF a = 1 THEN <<250, 750>> ELSE <<500, 500>>],
           [a \in 1..n |-> IF a = 1 THEN <<750, 250>> ELSE <<1000, 0>>],
           [a \in 1..n |-> IF a = 1 THEN <<500, 250>> ELSE <<500, 500>>] }

\* The (mixture, post) pairs a rating matrix is tried with
Inputs(X) ==
    { [mixture |-> m, post |-> Uniform(NRows(X), Len(m.mu))] : m \in Mixtures(NCols(X)) }
    \cup
    UNION { { [mixture |-> m, post |-> po] : po \in Posts(NRows(X), Len(m.mu)) } :
            m \in CoreMixtures(NCols(X)) }

\* The floors mstep is called with
MinVariances == {MIN_VARIANCE, Scale}

\* The iterations of run the model follows
MaxIter == 20

\* init is called with K in 1..MaxK and seed in 0..MaxSeed
MaxK == 3
MaxSeed == 1

Idle ==
    /\ pc = "idle" /\ i = 0 /\ cost = NoCost /\ mixture = NoMixture /\ post = None

\* The kernel after the cell that builds X, a Mixture State and a post
Init ==
    \E X \in RatingMatrices : \E in \in Inputs(X) :
        /\ heap = (XRef :> X) @@ (MuRef :> in.mixture.mu) @@ (VarRef :> in.mixture.var)
                    @@ (PRef :> in.mixture.p) @@ (PostRef :> in.post)
        /\ rng = 0
        /\ prev_cost = Undefined
        /\ ret = NoRet
        /\ Idle

(***************************************************************************)
(* Calls of estep, mstep and fill_matrix                                   *)
(***************************************************************************)
CallEstep ==
    /\ pc = "idle"
    /\ LET e == estep(heap, XRef, Given)
           z == Settle(e.heap, NoMixture, e.post, None)
       IN  /\ ret' = [NoRet EXCEPT !.op = "estep", !.post = z.post, !.cost = e.cost]
           /\ heap' = z.heap
    /\ UNCHANGED <<rng, prev_cost, pc, i, cost, mixture, post>>

CallMstep ==
    /\ pc = "idle"
    /\ \E min_variance \in MinVariances :
        LET m == mstep(heap, XRef, PostRef, Given, min_variance)
            z == Settle(m.heap, m.mixture, None, None)
        IN  /\ ret' = [NoRet EXCEPT !.op = "mstep", !.mixture = z.mixture,
                                    !.min_variance = min_variance, !.divs = m.divs]
            /\ heap' = z.heap
    /\ UNCHANGED <<rng, prev_cost, pc, i, cost, mixture, post>>

CallFillMatrix ==
    /\ pc = "idle"
    /\ LET f == fill_matrix(heap, XRef, Given)
           z == Settle(f.heap, NoMixture, None, f.output)
       IN  /\ ret' = [NoRet EXCEPT !.op = "fill_matrix", !.output = z.output]
           /\ heap' = z.heap
    /\ UNCHANGED <<rng, prev_cost, pc, i, cost, mixture, post>>

(***************************************************************************)
(* run                                                                     *)
(***************************************************************************)
\* run(X, mixture, post) is entered: cost = None; i = 0
RunCall ==
    /\ pc = "idle"
    /\ pc' = "estep"
    /\ i' = 0
    /\ cost' = NoCost
    /\ mixture' = Given
    /\ post' = PostRef
    /\ ret' = NoRet
    /\ heap' = Settle(heap, NoMixture, None, None).heap
    /\ UNCHANGED <<rng, prev_cost>>

\* if i > 0: prev_cost = cost;  post, cost = estep(X, mixture)
RunEstep ==
    /\ pc = "estep"
    /\ prev_cost' = IF i > 0 THEN cost ELSE prev_cost
    /\ LET e == estep(heap, XRef, mixture)
           z == Settle(e.heap, mixture, e.post, None)
       IN  /\ post' = z.post
           /\ cost' = e.cost
           /\ heap' = z.heap
    /\ pc' = "mstep"
    /\ UNCHANGED <<rng, i, mixture, ret>>

\* mixture = mstep(X, post, mixture)
RunMstep ==
    /\ pc = "mstep"
    /\ LET m == mstep(heap, XRef, post, mixture, MIN_VARIANCE)
           z == Settle(m.heap, m.mixture, post, None)
       IN  /\ mixture' = z.mixture
           /\ heap' = z.heap
    /\ pc' = "check"
    /\ UNCHANGED <<rng, prev_cost, i, cost, post, ret>>

\* The test made in iteration 0 too, when an earlier run left a prev_cost.
ConvergedFromStart(iter, c, prev) ==
    prev # Undefined /\ c - prev <= Abs(c) \div 1000000

\* The loop left at the end of iteration 0, with no previous cost to compare.
ConvergedAtOnce(iter, c, prev) == iter = 0 \/ c - prev <= Abs(c) \div 1000000

\* The test made on the size of the change: a fall beyond the tolerance goes on.
ConvergedAbs(iter, c, prev) == iter > 0 /\ Abs(c - prev) <= Abs(c) \div 1000000

\* if i > 0: if cost - prev_cost <= 1e-6 * np.abs(cost): break
Converged(iter, c, prev) == iter > 0 /\ c - prev <= Abs(c) \div 1000000

\* ... break, or i += 1 and the next iteration
RunCheck ==
    /\ pc = "check"
    /\ IF Converged(i, cost, prev_cost)
       THEN pc' = "return" /\ i' = i
       ELSE i < MaxIter /\ pc' = "estep" /\ i' = i + 1
    /\ UNCHANGED <<heap, rng, prev_cost, cost, mixture, post, ret>>

\* return mixture, post, cost
RunReturn ==
    /\ pc = "return"
    /\ ret' = [NoRet EXCEPT !.op = "run", !.mixture = mixture, !.post = post,
                            !.cost = cost, !.i = i]
    /\ pc' = "idle"
    /\ i' = 0
    /\ cost' = NoCost
    /\ mixture' = NoMixture
    /\ post' = None
    /\ UNCHANGED <<heap, rng, prev_cost>>

Next ==
    \/ CallEstep
    \/ CallMstep
    \/ CallFillMatrix
    \/ RunCall
    \/ RunEstep
    \/ RunMstep
    \/ RunCheck
    \/ RunReturn

Spec == Init /\ [][Next]_vars

(***************************************************************************)
(* Calls of init                                                           *)
(***************************************************************************)
\* The rating matrices init is tried on: the above, and the 3 x 3 example
InitMatrices ==
    RatingMatrices
    \cup { << <<1000, 0, 3000>>, <<0, 2000, 3000>>, <<1000, 2000, 0>> >> }

\* The kernel after the cell that builds X; the generator is in any state
InitI ==
    /\ \E X \in InitMatrices : heap = (XRef :> X)
    /\ rng \in 0..(RngMod - 1)
    /\ prev_cost = Undefined
    /\ ret = NoRet
    /\ Idle

CallInit ==
    /\ pc = "idle"
    /\ \E K \in 1..MaxK, seed \in 0..MaxSeed :
        LET r == init(heap, rng, XRef, K, seed)
            z == Settle(r.heap, r.mixture, r.post, None)
        IN  /\ ret' = [NoRet EXCEPT !.op = "init", !.error = r.error, !.K = K,
                                    !.seed = seed, !.mixture = z.mixture, !.post = z.post]
            /\ heap' = z.heap
            /\ rng' = r.rng
    /\ UNCHANGED <<prev_cost, pc, i, cost, mixture, post>>

NextI == CallInit

SpecInit == InitI /\ [][NextI]_vars

(***************************************************************************)
(* fill_matrix: what it leaves alone                                       *)
(***************************************************************************)
SameShape(A, B) ==
    /\ Len(A) = Len(B)
    /\ \A a \in 1..Len(A) : Len(A[a]) = Len(B[a])

\* C1: every call of fill_matrix returns a matrix that is a new object (none of
\* the caller's), has the shape of X, and equals X at every cell where
\* X[i, j] # 0, so that only the cells with X[i, j] = 0 may differ; and the
\* object X holds after the call what it held before it.
FillMatrixKeepsObservedCells ==
    [][ ret'.op = "fill_matrix" =>
            /\ heap'[XRef] = heap[XRef]
            /\ ret'.output \notin CallerRefs \cup {None}
            /\ SameShape(heap'[ret'.output], heap[XRef])
            /\ \A a \in 1..NRows(heap[XRef]) : \A b \in 1..NCols(heap[XRef]) :
                   heap[XRef][a][b] # 0 =>
                       heap'[ret'.output][a][b] = heap[XRef][a][b] ]_vars

\* C1, its case: fill_matrix has returned for an X with a missing cell, which
\* it filled with a non-zero estimate, and with an observed cell.
FillMatrixFilledACell ==
    /\ ret.op = "fill_matrix"
    /\ \E a \in 1..NRows(heap[XRef]) : \E b \in 1..NCols(heap[XRef]) :
           heap[XRef][a][b] = 0 /\ heap[ret.output][a][b] # 0
    /\ \E a \in 1..NRows(heap[XRef]) : \E b \in 1..NCols(heap[XRef]) :
           heap[XRef][a][b] # 0

(***************************************************************************)
(* mstep: the variance floor, the mixing weights, the mean fallback        *)
(***************************************************************************)
\* Every row of a Responsibility Matrix sums to 1 exactly
RowsSumToOne(po) == \A a \in 1..Len(po) : SumSeq(po[a]) = Scale

\* sum(p) is 1 up to the rounding of p's K quotients: each is rounded down by
\* less than one unit of the grid
SumsToOne(p) == Scale - Len(p) < SumSeq(p) /\ SumSeq(p) <= Scale

\* C2: every Mixture State mstep returns has var[k] >= min_variance for every
\* component k, and has sum(p) = 1 (to the rounding of the K quotients) when
\* every row of the post it was given sums to 1; the quotient below the floor
\* and the zero denominator are not excepted.  In run, every mixture handed to
\* estep from the second iteration on (and the one run returns) has
\* var[k] >= .25 > 0 for every k.
MstepFloorsVariance ==
    /\ ret.op = "mstep" =>
           /\ \A k \in 1..Len(heap[ret.mixture.var]) :
                  heap[ret.mixture.var][k] >= ret.min_variance
           /\ RowsSumToOne(heap[PostRef]) => SumsToOne(heap[ret.mixture.p])
    /\ (pc \in {"check", "return"} \/ (pc = "estep" /\ i > 0)) =>
           \A k \in 1..Len(heap[mixture.var]) :
               heap[mixture.var][k] >= MIN_VARIANCE /\ heap[mixture.var][k] > 0
    /\ ret.op = "run" =>
           \A k \in 1..Len(heap[ret.mixture.var]) : heap[ret.mixture.var][k] > 0

\* C2, its case: mstep has returned for a post that gives a component no mass
\* at all (the variance quotient is 0/0) and whose rows sum to 1; that
\* component's variance is the floor, and another component's variance is above it.
MstepFlooredAnEmptyComponent ==
    /\ ret.op = "mstep"
    /\ RowsSumToOne(heap[PostRef])
    /\ \E k \in 1..Len(heap[ret.mixture.var]) :
           /\ \A a \in 1..Len(heap[PostRef]) : heap[PostRef][a][k] = 0
           /\ heap[ret.mixture.var][k] = ret.min_variance
    /\ \E k \in 1..Len(heap[ret.mixture.var]) :
           heap[ret.mixture.var][k] > ret.min_variance

\* D = sum_i post[i, k] * observed[i, j]
ObservedMass(X, po, k, j) ==
    SumSeq([a \in 1..Len(X) |-> IF X[a][j] # 0 THEN po[a][k] ELSE 0])

\* sum_i post[i, k] * X[i, j] * observed[i, j]
ObservedWeightedSum(X, po, k, j) ==
    SumSeq([a \in 1..Len(X) |-> IF X[a][j] # 0 THEN (po[a][k] * X[a][j]) \div Scale ELSE 0])

\* C6: in the Mixture State mstep returns, for every component k and dimension
\* j, with D = sum_i post[i, k] * observed[i, j]: mu[k, j] is the given
\* mixture's mu[k, j] if D < 1, and sum_i post[i, k] * X[i, j] * observed[i, j] / D
\* if D >= 1, D = 1 included; every denominator a mean was divided by is at
\* least 1, and mstep raised nothing.
MstepMeanFallback ==
    ret.op = "mstep" =>
        /\ ret.error = ""
        /\ \A D \in ret.divs : D >= Scale
        /\ \A k \in 1..Len(heap[MuRef]) : \A j \in 1..NCols(heap[XRef]) :
               LET D == ObservedMass(heap[XRef], heap[PostRef], k, j)
               IN  /\ D < Scale =>
                          /\ heap[ret.mixture.mu][k][j] = heap[MuRef][k][j]
                          /\ D \notin ret.divs
                   /\ D >= Scale =>
                          /\ heap[ret.mixture.mu][k][j] =
                                 (ObservedWeightedSum(heap[XRef], heap[PostRef], k, j) * Scale) \div D
                          /\ D \in ret.divs

\* C6, its case: mstep has returned for a post that gives one (k, j) the mass
\* D = 1 exactly, where the mean was re-estimated away from the given one, and
\* another (k, j) a mass strictly between 0 and 1, where the given mean was
\* kept although the weighted mean differs from it.
MstepKeptAndReestimatedMeans ==
    /\ ret.op = "mstep"
    /\ \E k \in 1..Len(heap[MuRef]) : \E j \in 1..NCols(heap[XRef]) :
           /\ ObservedMass(heap[XRef], heap[PostRef], k, j) = Scale
           /\ heap[ret.mixture.mu][k][j] # heap[MuRef][k][j]
    /\ \E k \in 1..Len(heap[MuRef]) : \E j \in 1..NCols(heap[XRef]) :
           LET D == ObservedMass(heap[XRef], heap[PostRef], k, j)
           IN  /\ 0 < D /\ D < Scale
               /\ heap[ret.mixture.mu][k][j] = heap[MuRef][k][j]
               /\ (ObservedWeightedSum(heap[XRef], heap[PostRef], k, j) * Scale) \div D
                      # heap[MuRef][k][j]

(***************************************************************************)
(* estep: masking, and the rows of the Responsibility Matrix               *)
(***************************************************************************)
\* The means a component is tried with at an unobserved dimension
OtherMeanValues == MeanValues \cup {2 * Scale, 5 * Scale}

\* The arrays mu2 that agree with mu at every dimension observed in row r of X
AgreeingMeans(X, mu, r) ==
    { mu2 \in [1..Len(mu) -> [1..NCols(X) -> OtherMeanValues]] :
        \A k \in 1..Len(mu) : \A j \in 1..NCols(X) :
            X[r][j] # 0 => mu2[k][j] = mu[k][j] }

\* C5: for every row r of X and every array mu2 that agrees with the given mu
\* at every dimension observed in row r, whatever mu2 holds at the other
\* dimensions: the squared distances norm[r, k], the values f[r, k] and the
\* responsibilities post[r, k] computed from mu2 (same var, same p) are those
\* computed from mu, for every component k, and they are the row estep returned.
EstepReadsObservedDimensionsOnly ==
    ret.op = "estep" =>
        LET X  == heap[XRef]
            mu == heap[MuRef]
            f  == F(X, mu, heap[VarRef], heap[PRef])
        IN  \A r \in 1..NRows(X) :
                /\ heap[ret.post][r] = Post(LogPost(f))[r]
                /\ \A mu2 \in AgreeingMeans(X, mu, r) :
                       LET f2 == F(X, mu2, heap[VarRef], heap[PRef])
                       IN  /\ Norm(X, mu2)[r] = Norm(X, mu)[r]
                           /\ f2[r] = f[r]
                           /\ Post(LogPost(f2))[r] = heap[ret.post][r]

\* C5, its case: estep has returned for an X with a row r of a single observed
\* entry; an array that agrees with mu on that dimension differs from mu on the
\* unobserved one, and an array that differs from mu on the observed dimension
\* alone gives row r another f.
EstepMaskedASingleEntryRow ==
    /\ ret.op = "estep"
    /\ LET X  == heap[XRef]
           mu == heap[MuRef]
           f  == F(X, mu, heap[VarRef], heap[PRef])
       IN  \E r \in 1..NRows(X) :
               /\ Rated(X)[r] = 1
               /\ \E mu2 \in AgreeingMeans(X, mu, r) : mu2 # mu
               /\ \E j \in 1..NCols(X) : \E v \in OtherMeanValues :
                      /\ X[r][j] # 0
                      /\ F(X, [mu EXCEPT ![1][j] = v], heap[VarRef], heap[PRef])[r] # f[r]

\* The accuracy of the grid's np.log and np.exp in a row sum: half a percent
RowTolerance == Scale \div 200

\* A Responsibility Matrix of n rows and K columns: entries in [0, 1], rows
\* summing to 1 within the tolerance
IsResponsibilityMatrix(po, n, K) ==
    /\ Len(po) = n
    /\ \A a \in 1..n :
           /\ Len(po[a]) = K
           /\ \A k \in 1..K : 0 <= po[a][k] /\ po[a][k] <= Scale
           /\ Abs(SumSeq(po[a]) - Scale) <= RowTolerance

\* C8: the Responsibility Matrix estep returns (every given mixture has
\* var[k] > 0) has all entries in [0, 1] and every row summing to 1 within the
\* tolerance; so has the post of every iteration of run, and the post run returns.
EstepRowsAreDistributions ==
    /\ ret.op = "estep" =>
           IsResponsibilityMatrix(heap[ret.post], NRows(heap[XRef]), Len(heap[MuRef]))
    /\ pc \in {"mstep", "check", "return"} =>
           IsResponsibilityMatrix(heap[post], NRows(heap[XRef]), Len(heap[MuRef]))
    /\ ret.op = "run" =>
           IsResponsibilityMatrix(heap[ret.post], NRows(heap[XRef]), Len(heap[MuRef]))

\* C8, its case: run has returned after more than three iterations a post
\* of two columns with an entry strictly between 0 and 1.
RunReturnedASoftPost ==
    /\ ret.op = "run"
    /\ ret.i >= 3
    /\ Len(heap[MuRef]) = 2
    /\ \E a \in 1..Len(heap[ret.post]) :
           0 < heap[ret.post][a][1] /\ heap[ret.post][a][1] < Scale

(***************************************************************************)
(* run: when it stops and what it returns                                  *)
(***************************************************************************)
\* cost - previous_cost <= 1e-6 * |cost|
SmallGain(c, prev) == c - prev <= Abs(c) \div 1000000

\* C3: run never breaks in iteration i = 0; in an iteration i > 0 it breaks if
\* and only if cost - prev_cost <= 1e-6 * |cost|, where prev_cost is the cost
\* of iteration i - 1 and cost the one of iteration i's E-step, and otherwise
\* goes on to iteration i + 1 (so it breaks in the first such iteration and in
\* no earlier one).  The M-step of an iteration reads that iteration's post
\* and leaves post and cost alone, and run returns the post and the cost of
\* the last iteration's E-step with the mixture of the same iteration's M-step.
RunStopsAtFirstSmallGain ==
    [][ /\ (pc = "check" /\ pc' # "check") =>
               /\ pc' = "return" <=> (i > 0 /\ SmallGain(cost, prev_cost))
               /\ pc' # "return" => (pc' = "estep" /\ i' = i + 1)
               /\ UNCHANGED <<heap, cost, mixture, post>>
        /\ (pc = "estep" /\ pc' = "mstep") =>
               /\ i > 0 => prev_cost' = cost
               /\ heap'[post'] = Post(LogPost(F(heap[XRef], heap[mixture.mu],
                                                heap[mixture.var], heap[mixture.p])))
               /\ mixture' = mixture
        /\ (pc = "mstep" /\ pc' = "check") =>
               /\ cost' = cost /\ post' = post /\ heap'[post'] = heap[post]
               /\ heap'[mixture'.p] = MixingWeights(heap[post])
        /\ (pc = "return" /\ pc' = "idle") =>
               /\ ret'.op = "run" /\ ret'.i > 0
               /\ ret'.mixture = mixture /\ ret'.post = post /\ ret'.cost = cost
               /\ heap'[ret'.post] = heap[post]
               /\ \A a \in MixtureRefs(mixture) : heap'[a] = heap[a]
               /\ heap'[ret'.mixture.p] = MixingWeights(heap'[ret'.post]) ]_vars

\* C3, its case: run has returned from its third iteration or a later one,
\* and the mixture it returned is ahead of the post it returned: an E-step on
\* the returned mixture gives another post.
RunReturnedAfterSeveralIterations ==
    /\ ret.op = "run"
    /\ ret.i >= 2
    /\ Post(LogPost(F(heap[XRef], heap[ret.mixture.mu], heap[ret.mixture.var],
                      heap[ret.mixture.p]))) # heap[ret.post]

\* The caller's Mixture State is a local optimum: an E-step followed by an
\* M-step gives the same mixture, and the E-step on that gives the same cost.
LocalOptimum ==
    LET e  == estep(heap, XRef, Given)
        m  == mstep(e.heap, XRef, e.post, Given, MIN_VARIANCE)
        e2 == estep(m.heap, XRef, m.mixture)
    IN  /\ m.heap[m.mixture.mu] = heap[MuRef]
        /\ m.heap[m.mixture.var] = heap[VarRef]
        /\ m.heap[m.mixture.p] = heap[PRef]
        /\ e2.cost = e.cost

\* C4 as amended: given a Mixture State that is a local optimum, run breaks in
\* iteration i = 1, that is after exactly two E-step/M-step pairs (iteration 0
\* is never tested).
RunAtLocalOptimumTakesTwoPairs ==
    (ret.op = "run" /\ LocalOptimum) => ret.i = 1

\* C4 as stated: given a Mixture State that is a local optimum, run breaks
\* after exactly one E-step/M-step pair, that is in iteration i = 0.
RunAtLocalOptimumTakesOnePair ==
    (ret.op = "run" /\ LocalOptimum) => ret.i = 0

\* C4, its case: run has returned for a Mixture State that is a local optimum,
\* with the mixture it was given.
RunReturnedFromLocalOptimum ==
    /\ ret.op = "run"
    /\ LocalOptimum
    /\ heap[ret.mixture.mu] = heap[MuRef]
    /\ heap[ret.mixture.var] = heap[VarRef]
    /\ heap[ret.mixture.p] = heap[PRef]

\* C10 as amended: the loop has no iteration cap, it is left by the test
\* alone; but run goes on to another iteration only from iteration 0 or from
\* an iteration whose cost rose, and an iteration i > 0 whose cost fell or
\* stood still ends the loop.  A log-likelihood that rises and then falls ends
\* the run at its first fall.
RunGoesOnOnlyWhileCostRises ==
    [][ (pc = "check" /\ pc' # "check") =>
            /\ (i > 0 /\ cost <= prev_cost) => pc' = "return"
            /\ pc' = "return" => (i > 0 /\ SmallGain(cost, prev_cost))
            /\ pc' # "return" => (pc' = "estep" /\ i' = i + 1 /\ (i = 0 \/ cost > prev_cost)) ]_vars

\* C10 as stated: a log-likelihood that oscillates keeps run RUNNING: when the
\* cost has risen in iteration i - 1 and falls in iteration i, run goes on to
\* iteration i + 1.
RunGoesOnWhenCostFalls ==
    [][ (pc = "check" /\ pc' # "check" /\ i >= 2 /\ cost < prev_cost) =>
            pc' = "estep" ]_vars

\* C10, its case: run is leaving the loop in an iteration i >= 2 whose cost
\* fell; the cost of iteration i - 1 had risen, or the loop had ended there.
RunEndedByAFall ==
    /\ pc = "return"
    /\ i >= 2
    /\ cost < prev_cost

(***************************************************************************)
(* What outlives a call                                                    *)
(***************************************************************************)
\* C9 as stated: every step of estep, mstep, run and fill_matrix leaves
\* unchanged the caller's array objects (X, the arrays of the Mixture State,
\* the post) and the module-level variable prev_cost.
CallsLeaveOuterStateUnchanged ==
    [][ /\ \A a \in CallerRefs : heap'[a] = heap[a]
        /\ prev_cost' = prev_cost ]_vars

(***************************************************************************)
(* init                                                                    *)
(***************************************************************************)
\* 1/K
OneOver(K) == (Scale * Scale) \div (K * Scale)

\* The values init returns from generator state s: the error, and the arrays
InitValues(X, K, seed, s) ==
    LET r == init((XRef :> X), s, XRef, K, seed)
    IN  IF r.error # "" THEN <<r.error>>
        ELSE <<r.error, r.heap[r.mixture.mu], r.heap[r.mixture.var],
               r.heap[r.mixture.p], r.heap[r.post]>>

\* C7: init(X, K, seed) raises and returns no state when K > n.  When K <= n
\* it returns means that are the rows of X at K pairwise-distinct row indices,
\* mixing weights all 1/K, and a post of n rows and K columns with every cell
\* 1/K; and it returns the same values whatever state the generator was in
\* before the call, so that two calls with the same X, K and seed return the
\* same initial state.
InitPicksDistinctRows ==
    ret.op = "init" =>
        LET X == heap[XRef]
            n == NRows(X)
            K == ret.K
        IN  /\ K > n => (ret.error # "" /\ ret.mixture = NoMixture /\ ret.post = None)
            /\ K <= n =>
                   /\ ret.error = ""
                   /\ \E idx \in [1..K -> 1..n] :
                          /\ \A a, b \in 1..K : a # b => idx[a] # idx[b]
                          /\ heap[ret.mixture.mu] = [k \in 1..K |-> X[idx[k]]]
                   /\ heap[ret.mixture.p] = [k \in 1..K |-> OneOver(K)]
                   /\ heap[ret.post] = [a \in 1..n |-> [k \in 1..K |-> OneOver(K)]]
                   /\ Len(heap[ret.mixture.var]) = K
                   /\ \A s \in 0..(RngMod - 1) :
                          InitValues(X, K, ret.seed, s) =
                              <<"", heap[ret.mixture.mu], heap[ret.mixture.var],
                                heap[ret.mixture.p], heap[ret.post]>>
            /\ \A s \in 0..(RngMod - 1) :
                   InitValues(X, K, ret.seed, s)[1] = ret.error

\* C7, its case: init has raised ValueError for an X of two rows and K = 3,
\* and has returned no state.
InitRaisedForTooManyComponents ==
    /\ ret.op = "init"
    /\ ret.K > NRows(heap[XRef])
    /\ ret.error = "ValueError"
    /\ NRows(heap[XRef]) = 2
    /\ ret.K = NRows(heap[XRef]) + 1
    /\ ret.mixture = NoMixture
    /\ ret.post = None

====
